---- MODULE Spec2Model ----
(***************************************************************************)
(* crondes: a dynamic-DNS updater.  The main task loads the configuration, *)
(* spawns the scheduler task and waits on a tokio Notify; the scheduler    *)
(* task runs update cycles (check_all_info, current_ip, fetch_public_ip,   *)
(* update_ip) separated by a select! over a sleep and the Notify.          *)
(*                                                                         *)
(* One action of the scheduler task is one poll of the task: the code      *)
(* from one .await that suspended to the next one.  Text is modelled as a  *)
(* sequence of one-character strings.                                      *)
(***************************************************************************)
EXTENDS Integers, Sequences, FiniteSets, TLC

\* ------------------------------------------------------------------ bounds
\* Largest UPDATE_INTERVAL_SECS the environment offers (in timer ticks).
MaxInterval == 2
\* Cap on run_count: the scheduler loop is unbounded in the code.
MaxRuns == 3

\* ---------------------------------------------------------------- text
Digits == <<"0", "1", "2", "3", "4", "5", "6", "7", "8", "9">>

IsDigit(c) == \E i \in 1..10 : Digits[i] = c

DigitVal(c) == (CHOOSE i \in 1..10 : Digits[i] = c) - 1

\* char::is_whitespace, for the characters the model uses
IsWhitespace(c) == c \in {" ", "\n", "\t", "\r"}

RECURSIVE TrimStart(_)
TrimStart(s) ==
    IF s # <<>> /\ IsWhitespace(Head(s)) THEN TrimStart(Tail(s)) ELSE s

RECURSIVE TrimEnd(_)
TrimEnd(s) ==
    IF s # <<>> /\ IsWhitespace(s[Len(s)])
    THEN TrimEnd(SubSeq(s, 1, Len(s) - 1))
    ELSE s

\* str::trim
Trim(s) == TrimEnd(TrimStart(s))

\* value of a sequence of decimal digits
RECURSIVE DecValue(_)
DecValue(s) ==
    IF s = <<>> THEN 0
    ELSE 10 * DecValue(SubSeq(s, 1, Len(s) - 1)) + DigitVal(s[Len(s)])

AllDigits(s) == \A i \in 1..Len(s) : IsDigit(s[i])

\* the pieces of s between separators sep
RECURSIVE SplitOn(_, _)
SplitOn(s, sep) ==
    IF \A i \in 1..Len(s) : s[i] # sep THEN <<s>>
    ELSE LET k == CHOOSE i \in 1..Len(s) :
                      s[i] = sep /\ \A j \in 1..(i - 1) : s[j] # sep
         IN  <<SubSeq(s, 1, k - 1)>> \o SplitOn(SubSeq(s, k + 1, Len(s)), sep)

\* one octet of Ipv4Addr::from_str: 1 to 3 digits, no leading zero, <= 255
IsOctet(p) ==
    /\ Len(p) \in 1..3
    /\ AllDigits(p)
    /\ (Len(p) > 1 => p[1] # "0")
    /\ DecValue(p) <= 255

\* ip.parse::<IpAddr>() is Ok and parsed.is_ipv4(): a text that parses as an
\* IPv6 address never parses as an IPv4 address, so this is Ipv4Addr's parser
IsIpv4(s) ==
    LET parts == SplitOn(s, ".")
    IN  /\ Len(parts) = 4
        /\ \A i \in 1..4 : IsOctet(parts[i])

\* str::parse::<u64>: an optional "+", then one or more digits.
\* Result: [ok |-> TRUE, val |-> n] or [ok |-> FALSE]
ParseU64(s) ==
    LET body == IF s # <<>> /\ Head(s) = "+" THEN Tail(s) ELSE s
    IN  IF body # <<>> /\ AllDigits(body)
        THEN [ok |-> TRUE, val |-> DecValue(body)]
        ELSE [ok |-> FALSE]

\* ---------------------------------------------------------------- inputs
IpA == <<"1", ".", "2", ".", "3", ".", "4">>
IpB == <<"1", ".", "2", ".", "3", ".", "5">>

\* what an IP echo service may answer
ServiceBodies ==
    { IpA,
      IpB \o <<"\n">>,
      <<" ">> \o IpA \o <<"\n">>,
      <<"n", "o", "t", "-", "a", "n", "-", "i", "p">>,
      <<":", ":", "1">>,
      <<"2", "5", "6", ".", "1", ".", "1", ".", "1">>,
      <<"0", "1", ".", "2", ".", "3", ".", "4">>,
      <<"1", ".", "2", ".", "3">>,
      <<>> }

\* what the provider may hold as the record's content
RecordContents == { IpA, IpB, IpA \o <<" ">> }

\* values of the environment variable UPDATE_INTERVAL_SECS (when set)
IntervalTexts ==
    { <<Digits[n + 1]>> : n \in 0..MaxInterval }
    \cup { <<"+", "1">>, <<"0", "1">>, <<"-", "1">>, <<"a", "b", "c">>,
           <<" ", "1">>, <<"1", ".", "5">>, <<>> }

\* The environments: each variable is set or not; UPDATE_INTERVAL_SECS, when
\* set, has a text (the other three are opaque to the program)
Environments ==
    [token : BOOLEAN, zone : BOOLEAN, record : BOOLEAN,
     intervalSet : BOOLEAN, intervalText : IntervalTexts]

\* ----------------------------------------------------------------- state
VARIABLES
    env,            \* the process environment: CF_API_TOKEN, CF_ZONE_ID, ...
    mainPc,         \* main task: "start", "spawned", "waiting", "exited";
                    \* "killed" when a signal ended the process
    configErr,      \* the error of Config::from_env, or "none"
    interval,       \* cf.config.update_interval_secs
    mainNotified,   \* main's Notified future (main.rs:88) has been woken
    pc,             \* scheduler task: the .await it is suspended at
    taskDropped,    \* the scheduler task was ended unfinished, by the
                    \* runtime shutdown or with the process
    run_count,      \* run_count of the scheduler loop
    calls,          \* the collaborator calls of the current cycle, in order
    svc,            \* index in IP_SERVICES of the request in flight
    current_dns_ip, \* update(): current_dns_ip
    public_ip,      \* update(): public_ip
    sleepRemaining, \* ticks until the select!'s sleep completes
    outcome,        \* result of the last finished cycle
    dnsContent,     \* the provider's content of the record
    sigPc,          \* where the scheduler task was at the external shutdown
                    \* signal; "none" while none was raised
    sigWaitRun,     \* run_count at the external signal if it arrived during
                    \* an inter-cycle wait with time left, else 0
    curResp,        \* the provider's answer to current_ip in this cycle
    answer,         \* the last answer of an IP service in this cycle
    queried,        \* the IP services asked in this cycle, in order
    writes,         \* number of update_ip calls issued in the run
    resolvedIps     \* the public IPs resolved in the run

vars == <<env, mainPc, configErr, interval, mainNotified, pc, taskDropped,
          run_count, calls, svc, current_dns_ip, public_ip, sleepRemaining,
          outcome, dnsContent, sigPc, sigWaitRun, curResp,
          answer, queried, writes, resolvedIps>>

mainVars  == <<env, mainPc, configErr, interval>>
cycleVars == <<calls, svc, current_dns_ip, public_ip, curResp, answer,
              queried>>
runVars   == <<writes, resolvedIps>>
ghostVars == <<sigPc, sigWaitRun>>

\* IP_SERVICES.len()
NumIpServices == 5

\* ----------------------------------------------------------- pure parts
\* from_env that does not look for CF_RECORD_ID
from_env_NoRecordCheck(e) ==
    IF ~e.token THEN [ok |-> FALSE, err |-> "CF_API_TOKEN is missing"]
    ELSE IF ~e.zone THEN [ok |-> FALSE, err |-> "CF_ZONE_ID is missing"]
    ELSE IF ~e.intervalSet
         THEN [ok |-> FALSE, err |-> "UPDATE_INTERVAL_SECS is missing"]
    ELSE IF ~ParseU64(e.intervalText).ok
         THEN [ok |-> FALSE, err |-> "UPDATE_INTERVAL_SECS must be a number"]
    ELSE [ok |-> TRUE,
          update_interval_secs |-> ParseU64(e.intervalText).val]

\* Config::from_env: the first missing or malformed variable is the error
from_env(e) ==
    IF ~e.token THEN [ok |-> FALSE, err |-> "CF_API_TOKEN is missing"]
    ELSE IF ~e.zone THEN [ok |-> FALSE, err |-> "CF_ZONE_ID is missing"]
    ELSE IF ~e.record THEN [ok |-> FALSE, err |-> "CF_RECORD_ID is missing"]
    ELSE IF ~e.intervalSet
         THEN [ok |-> FALSE, err |-> "UPDATE_INTERVAL_SECS is missing"]
    ELSE IF ~ParseU64(e.intervalText).ok
         THEN [ok |-> FALSE, err |-> "UPDATE_INTERVAL_SECS must be a number"]
    ELSE [ok |-> TRUE,
          update_interval_secs |-> ParseU64(e.intervalText).val]

\* A request either fails in transport or is answered with a status.
HttpResponses == {"transport_err", "success", "non_success"}

\* send().await? ; Ok(resp.status().is_success())
StatusResult(resp) ==
    IF resp = "transport_err" THEN "err"
    ELSE IF resp = "success" THEN "true" ELSE "false"

api_token_right(resp) == StatusResult(resp)
zone_id_right(resp)   == StatusResult(resp)
record_id_right(resp) == StatusResult(resp)

\* The answer to the record read: sent is FALSE for a transport error; body is
\* "bad_json" (not JSON), "no_content" (JSON without result.content as a
\* string) or "content" (JSON carrying the record's content)
NoReply == [sent |-> FALSE, status |-> "none", body |-> "none"]

CurrentIpResponses ==
    {NoReply}
    \cup [sent : {TRUE}, status : {"success", "non_success"},
          body : {"bad_json", "no_content", "content"}]

\* Cloudflare::current_ip: the status is not looked at
current_ip(resp, content) ==
    IF ~resp.sent THEN [ok |-> FALSE, err |-> "request failed"]
    ELSE IF resp.body = "bad_json" THEN [ok |-> FALSE, err |-> "request failed"]
    ELSE IF resp.body = "no_content"
         THEN [ok |-> FALSE, err |-> "No IP found in record"]
    ELSE [ok |-> TRUE, ip |-> content]

\* The answer to the record listing: body is "bad_json", "no_array" (JSON
\* whose result is not an array) or "array"
ListResponses ==
    {NoReply}
    \cup [sent : {TRUE}, status : {"success", "non_success"},
          body : {"bad_json", "no_array", "array"}]

\* Cloudflare::list_records: Err on a transport or JSON error, else the list
list_records(resp) ==
    IF ~resp.sent \/ resp.body = "bad_json" THEN "err" ELSE "ok"

\* update_ip that takes every answered request for a success
update_ip_IgnoresStatus(resp) ==
    IF resp = "transport_err" THEN [ok |-> FALSE, err |-> "request failed"]
    ELSE [ok |-> TRUE]

\* Cloudflare::update_ip: Ok only for a success status
update_ip(resp) ==
    IF resp = "transport_err" THEN [ok |-> FALSE, err |-> "request failed"]
    ELSE IF resp = "success" THEN [ok |-> TRUE]
    ELSE [ok |-> FALSE, err |-> "Failed to update IP"]

\* The answer of one IP echo service: ok is FALSE when the fetch failed
ServiceResponses ==
    {[ok |-> FALSE, body |-> <<>>]}
    \cup {[ok |-> TRUE, body |-> b] : b \in ServiceBodies}

\* fetch_public_ip, one service: the trimmed body is taken iff it is an IPv4
ServiceAccepted(resp) == resp.ok /\ IsIpv4(Trim(resp.body))

\* ServiceIp that returns the body as received, untrimmed
ServiceIp_Untrimmed(resp) == resp.body

ServiceIp(resp) == Trim(resp.body)

\* NeedsUpdate with the comparison inverted
NeedsUpdate_Inverted(dns, pub) == dns = pub

\* update(): current_dns_ip != public_ip
NeedsUpdate(dns, pub) == dns # pub


\* no record read yet in this cycle
NoRead == NoReply

\* no IP service has answered yet in this cycle
NoAnswer == [ok |-> FALSE, body |-> <<>>]

\* ------------------------------------------------------------------ init
Init ==
    /\ env \in Environments
    /\ dnsContent \in RecordContents
    /\ mainPc = "start"
    /\ configErr = "none"
    /\ interval = 0
    /\ mainNotified = FALSE
    /\ pc = "unspawned"
    /\ taskDropped = FALSE
    /\ run_count = 0
    /\ calls = <<>>
    /\ svc = 0
    /\ current_dns_ip = <<>>
    /\ public_ip = <<>>
    /\ sleepRemaining = 0
    /\ outcome = "none"
    /\ sigPc = "none"
    /\ sigWaitRun = 0
    /\ curResp = NoRead
    /\ answer = NoAnswer
    /\ queried = <<>>
    /\ writes = 0
    /\ resolvedIps = {}

\* ------------------------------------------------------------- main task
\* main.rs:47-57: the configuration does not load; main logs and returns
StartupFails ==
    /\ mainPc = "start"
    /\ ~from_env(env).ok
    /\ configErr' = from_env(env).err
    /\ mainPc' = "exited"
    /\ UNCHANGED <<env, interval, mainNotified, pc, taskDropped, run_count,
                   outcome, dnsContent, sleepRemaining>>
    /\ UNCHANGED cycleVars
    /\ UNCHANGED ghostVars
    /\ UNCHANGED runVars

\* main.rs:47-85: the configuration loads; the Notify is created and the
\* scheduler task is spawned
StartupSpawns ==
    /\ mainPc = "start"
    /\ from_env(env).ok
    /\ interval' = from_env(env).update_interval_secs
    /\ mainPc' = "spawned"
    /\ pc' = "spawned"
    /\ UNCHANGED <<env, configErr, mainNotified, taskDropped, run_count,
                   outcome, dnsContent, sleepRemaining>>
    /\ UNCHANGED cycleVars
    /\ UNCHANGED ghostVars
    /\ UNCHANGED runVars

\* main.rs:88: shutdown.notified() is created; from here on a notify_waiters
\* wakes it
MainWaits ==
    /\ mainPc = "spawned"
    /\ mainPc' = "waiting"
    /\ mainNotified' = FALSE
    /\ UNCHANGED <<env, configErr, interval, pc, taskDropped, run_count,
                   outcome, dnsContent, sleepRemaining>>
    /\ UNCHANGED cycleVars
    /\ UNCHANGED ghostVars
    /\ UNCHANGED runVars

\* The scheduler task has neither finished nor been dropped.
TaskAlive == pc \notin {"unspawned", "stopped"} /\ ~taskDropped

\* main.rs:88-90: the wait completes, main returns; the runtime shuts down and
\* drops the scheduler task where it is suspended
MainExits ==
    /\ mainPc = "waiting"
    /\ mainNotified
    /\ mainPc' = "exited"
    /\ taskDropped' = TaskAlive
    /\ UNCHANGED <<env, configErr, interval, mainNotified, pc, run_count,
                   outcome, dnsContent, sleepRemaining>>
    /\ UNCHANGED cycleVars
    /\ UNCHANGED ghostVars
    /\ UNCHANGED runVars

\* Notify::notify_waiters, called by the scheduler task at main.rs:74: wakes
\* the Notified future of main if it exists now, and leaves nothing behind for
\* one created later
NotifyWaiters ==
    /\ mainNotified' = (mainNotified \/ mainPc = "waiting")

\* An external shutdown signal (SIGTERM, SIGINT).  main installs no handler
\* (main.rs:46-90), so the signal ends the process at once, wherever the two
\* tasks are: nothing is notified and no further step is taken.
SignalKill ==
    /\ mainPc \notin {"exited", "killed"}
    /\ mainPc' = "killed"
    /\ taskDropped' = (taskDropped \/ TaskAlive)
    /\ sigPc' = pc
    /\ sigWaitRun' = IF pc = "select" /\ TaskAlive /\ sleepRemaining > 0
                     THEN run_count ELSE 0
    /\ UNCHANGED <<env, configErr, interval, mainNotified, pc, run_count,
                   outcome, dnsContent, sleepRemaining>>
    /\ UNCHANGED cycleVars
    /\ UNCHANGED runVars


\* -------------------------------------------------------- scheduler task
\* the log of the cycle with the answer to the call in flight filled in
Completed(res) == [calls EXCEPT ![Len(calls)].res = res]

\* the log with a newly issued call
Issued(log, op, arg) == Append(log, [op |-> op, arg |-> arg, res |-> "pending"])

\* main.rs:68-72 and 94-95: top of the loop; the cycle starts with the request
\* of api_token_right
StartCycle ==
    /\ run_count' = run_count + 1
    /\ calls' = Issued(<<>>, "api_token_right", <<>>)
    /\ pc' = "api_token_right"
    /\ svc' = 0
    /\ current_dns_ip' = <<>>
    /\ public_ip' = <<>>
    /\ curResp' = NoRead
    /\ answer' = NoAnswer
    /\ queried' = <<>>
    /\ sleepRemaining' = 0
    /\ UNCHANGED <<mainNotified, outcome, dnsContent, taskDropped>>
    /\ UNCHANGED mainVars
    /\ UNCHANGED ghostVars
    /\ UNCHANGED runVars

\* LoopAfterUpdate without the break: a failed cycle is followed by the wait
LoopAfterUpdate_NoBreak(result) ==
    /\ outcome' = IF result.ok THEN result.kind ELSE result.err
    /\ IF result.ok THEN UNCHANGED mainNotified
                    ELSE mainNotified' = (mainNotified \/ mainPc = "waiting")
    /\ pc' = "select"
    /\ sleepRemaining' = interval

\* main.rs:72-84: what the loop does with the result of update(): on Err it
\* notifies the waiters and breaks, on Ok it enters the select!
LoopAfterUpdate(result) ==
    IF result.ok
    THEN /\ outcome' = result.kind
         /\ pc' = "select"
         /\ sleepRemaining' = interval
         /\ UNCHANGED mainNotified
    ELSE /\ outcome' = result.err
         /\ NotifyWaiters
         /\ pc' = "stopped"
         /\ UNCHANGED sleepRemaining

\* update() returns: the answer res of the last call is logged
UpdateReturns(res, result) ==
    /\ calls' = Completed(res)
    /\ LoopAfterUpdate(result)
    /\ UNCHANGED <<svc, current_dns_ip, public_ip, queried, run_count,
                   dnsContent, taskDropped>>
    /\ UNCHANGED mainVars
    /\ UNCHANGED ghostVars
    /\ UNCHANGED runVars

\* NextCall that issues the next call without the previous one having returned
NextCall_NoAwait(res, op, arg) ==
    /\ calls' = Issued(calls, op, arg)
    /\ pc' = op
    /\ UNCHANGED <<mainNotified, sleepRemaining, outcome,
                   run_count, dnsContent, taskDropped>>
    /\ UNCHANGED mainVars
    /\ UNCHANGED ghostVars

\* update() goes on to its next call op
NextCall(res, op, arg) ==
    /\ calls' = Issued(Completed(res), op, arg)
    /\ pc' = op
    /\ UNCHANGED <<mainNotified, sleepRemaining, outcome,
                   run_count, dnsContent, taskDropped>>
    /\ UNCHANGED mainVars
    /\ UNCHANGED ghostVars

Err(e) == [ok |-> FALSE, err |-> e]

\* SchedStart that waits for the interval before the first cycle
SchedStart_WaitsFirst ==
    /\ pc = "spawned"
    /\ TaskAlive
    /\ pc' = "select"
    /\ sleepRemaining' = interval
    /\ UNCHANGED <<mainNotified, taskDropped, run_count,
                   outcome, dnsContent>>
    /\ UNCHANGED mainVars
    /\ UNCHANGED cycleVars
    /\ UNCHANGED ghostVars
    /\ UNCHANGED runVars

\* main.rs:66-72: the first poll of the spawned task
SchedStart ==
    /\ pc = "spawned"
    /\ TaskAlive
    /\ StartCycle

\* CheckApiToken that goes on to the zone check although the token is invalid
CheckApiToken_IgnoresFalse(r) ==
    IF r = "err" THEN UpdateReturns(r, Err("request failed"))
    ELSE /\ NextCall(r, "zone_id_right", <<>>)
         /\ UNCHANGED <<svc, current_dns_ip, public_ip, queried, writes,
                        resolvedIps>>

\* main.rs:16-18
CheckApiToken(r) ==
    IF r = "err" THEN UpdateReturns(r, Err("request failed"))
    ELSE IF r = "false" THEN UpdateReturns(r, Err("API token is invalid"))
    ELSE /\ NextCall(r, "zone_id_right", <<>>)
         /\ UNCHANGED <<svc, current_dns_ip, public_ip, queried, writes,
                        resolvedIps>>

ApiTokenDone ==
    /\ pc = "api_token_right"
    /\ TaskAlive
    /\ \E resp \in HttpResponses : CheckApiToken(api_token_right(resp))
    /\ UNCHANGED <<curResp, answer>>

\* main.rs:19-21
CheckZoneId(r) ==
    IF r = "err" THEN UpdateReturns(r, Err("request failed"))
    ELSE IF r = "false" THEN UpdateReturns(r, Err("Zone ID is invalid"))
    ELSE /\ NextCall(r, "record_id_right", <<>>)
         /\ UNCHANGED <<svc, current_dns_ip, public_ip, queried, writes,
                        resolvedIps>>

ZoneIdDone ==
    /\ pc = "zone_id_right"
    /\ TaskAlive
    /\ \E resp \in HttpResponses : CheckZoneId(zone_id_right(resp))
    /\ UNCHANGED <<curResp, answer>>

\* CheckRecordId that fails on an invalid record id without listing the records
CheckRecordId_NoListing(r) ==
    IF r = "err" THEN UpdateReturns(r, Err("request failed"))
    ELSE IF r = "false" THEN UpdateReturns(r, Err("Record ID is invalid"))
    ELSE /\ NextCall(r, "current_ip", <<>>)
         /\ UNCHANGED <<svc, current_dns_ip, public_ip, queried, writes,
                        resolvedIps>>

\* main.rs:22-24 and 30, 95-96
CheckRecordId(r) ==
    IF r = "err" THEN UpdateReturns(r, Err("request failed"))
    ELSE IF r = "false"
         THEN /\ NextCall(r, "list_records", <<>>)
              /\ UNCHANGED <<svc, current_dns_ip, public_ip, queried, writes,
                             resolvedIps>>
    ELSE /\ NextCall(r, "current_ip", <<>>)
         /\ UNCHANGED <<svc, current_dns_ip, public_ip, queried, writes,
                        resolvedIps>>

RecordIdDone ==
    /\ pc = "record_id_right"
    /\ TaskAlive
    /\ \E resp \in HttpResponses : CheckRecordId(record_id_right(resp))
    /\ UNCHANGED <<curResp, answer>>

\* main.rs:24-28: the listing's error is propagated by `?`; otherwise the
\* records are logged and the error is "Record ID is invalid"
AfterListRecords(r) ==
    IF r = "err" THEN UpdateReturns(r, Err("request failed"))
    ELSE UpdateReturns(r, Err("Record ID is invalid"))

ListRecordsDone ==
    /\ pc = "list_records"
    /\ TaskAlive
    /\ \E resp \in ListResponses : AfterListRecords(list_records(resp))
    /\ UNCHANGED <<curResp, answer>>

\* main.rs:96-98 and ip.rs:21-22: the content is read, the first IP service
\* is asked
AfterCurrentIp(r) ==
    IF ~r.ok THEN UpdateReturns("err", r)
    ELSE /\ NextCall("ok", "fetch_public_ip", <<>>)
         /\ current_dns_ip' = r.ip
         /\ svc' = 1
         /\ queried' = <<1>>
         /\ UNCHANGED <<public_ip, writes, resolvedIps>>

CurrentIpDone ==
    /\ pc = "current_ip"
    /\ TaskAlive
    /\ \E resp \in CurrentIpResponses :
          /\ AfterCurrentIp(current_ip(resp, dnsContent))
          /\ curResp' = resp
    /\ UNCHANGED answer

\* CompareAndUpdate that writes the record's old content back
CompareAndUpdate_WritesOld(ip) ==
    IF NeedsUpdate(current_dns_ip, ip)
    THEN /\ NextCall("ok", "update_ip", current_dns_ip)
         /\ public_ip' = ip
         /\ svc' = 0
         /\ writes' = writes + 1
         /\ resolvedIps' = resolvedIps \cup {ip}
         /\ UNCHANGED <<current_dns_ip, queried>>
    ELSE /\ calls' = Completed("ok")
         /\ LoopAfterUpdate([ok |-> TRUE, kind |-> "NoChangeNeeded"])
         /\ public_ip' = ip
         /\ svc' = 0
         /\ resolvedIps' = resolvedIps \cup {ip}
         /\ UNCHANGED <<current_dns_ip, queried, writes, run_count,
                        dnsContent, taskDropped>>
         /\ UNCHANGED mainVars
         /\ UNCHANGED ghostVars

\* main.rs:100-111: the comparison, and the write when the two differ
CompareAndUpdate(ip) ==
    IF NeedsUpdate(current_dns_ip, ip)
    THEN /\ NextCall("ok", "update_ip", ip)
         /\ public_ip' = ip
         /\ svc' = 0
         /\ writes' = writes + 1
         /\ resolvedIps' = resolvedIps \cup {ip}
         /\ UNCHANGED <<current_dns_ip, queried>>
    ELSE /\ calls' = Completed("ok")
         /\ LoopAfterUpdate([ok |-> TRUE, kind |-> "NoChangeNeeded"])
         /\ public_ip' = ip
         /\ svc' = 0
         /\ resolvedIps' = resolvedIps \cup {ip}
         /\ UNCHANGED <<current_dns_ip, queried, writes, run_count,
                        dnsContent, taskDropped>>
         /\ UNCHANGED mainVars
         /\ UNCHANGED ghostVars

\* AfterService that asks the same service again after an unusable answer
AfterService_Retries(resp) ==
    IF ServiceAccepted(resp) THEN CompareAndUpdate(ServiceIp(resp))
    ELSE IF Len(queried) < NumIpServices
    THEN /\ queried' = Append(queried, svc)
         /\ UNCHANGED <<svc, calls, pc, current_dns_ip, public_ip,
                        mainNotified, sleepRemaining, outcome,
                        run_count, dnsContent, taskDropped, writes,
                        resolvedIps>>
         /\ UNCHANGED mainVars
         /\ UNCHANGED ghostVars
    ELSE /\ UpdateReturns("err",
                Err("No valid public IP address could be determined"))

\* ip.rs:21-31: the answer of service svc; a valid IPv4 ends the search, else
\* the next service is asked, and after the last one the search fails
AfterService(resp) ==
    IF ServiceAccepted(resp) THEN CompareAndUpdate(ServiceIp(resp))
    ELSE IF svc < NumIpServices
    THEN /\ svc' = svc + 1
         /\ queried' = Append(queried, svc + 1)
         /\ UNCHANGED <<calls, pc, current_dns_ip, public_ip, mainNotified,
                        sleepRemaining, outcome, run_count,
                        dnsContent, taskDropped, writes, resolvedIps>>
         /\ UNCHANGED mainVars
         /\ UNCHANGED ghostVars
    ELSE /\ UpdateReturns("err",
                Err("No valid public IP address could be determined"))

IpServiceDone ==
    /\ pc = "fetch_public_ip"
    /\ TaskAlive
    /\ \E resp \in ServiceResponses :
          /\ AfterService(resp)
          /\ answer' = resp
    /\ UNCHANGED curResp

\* main.rs:102-108, 112: the answer to the write; the provider stores the new
\* content when it answers with success
AfterUpdateIp(resp) ==
    /\ calls' = Completed(IF update_ip(resp).ok THEN "ok" ELSE "err")
    /\ LoopAfterUpdate(IF update_ip(resp).ok
                       THEN [ok |-> TRUE, kind |-> "Updated"]
                       ELSE update_ip(resp))
    /\ dnsContent' = IF resp = "success" THEN public_ip ELSE dnsContent
    /\ UNCHANGED <<svc, current_dns_ip, public_ip, queried, run_count,
                   taskDropped>>
    /\ UNCHANGED mainVars
    /\ UNCHANGED ghostVars
    /\ UNCHANGED runVars

UpdateIpDone ==
    /\ pc = "update_ip"
    /\ TaskAlive
    /\ \E resp \in HttpResponses : AfterUpdateIp(resp)
    /\ UNCHANGED <<curResp, answer>>

\* tokio::time::sleep(interval): one tick of the timer passes
Tick ==
    /\ pc = "select"
    /\ TaskAlive
    /\ sleepRemaining > 0
    /\ sleepRemaining' = sleepRemaining - 1
    /\ UNCHANGED <<mainNotified, pc, taskDropped, run_count,
                   outcome, dnsContent>>
    /\ UNCHANGED mainVars
    /\ UNCHANGED cycleVars
    /\ UNCHANGED ghostVars
    /\ UNCHANGED runVars

\* SelectSleep that does not wait for the timer
SelectSleep_Early ==
    /\ pc = "select"
    /\ TaskAlive
    /\ run_count < MaxRuns
    /\ StartCycle

\* main.rs:81: the select! completes by its sleep branch and the loop goes
\* round.  The notified branch (main.rs:82) is never ready: the only
\* notify_waiters on the Notify (main.rs:74) is made by this same task, on its
\* way out of the loop, when no select! is pending.
SelectSleep ==
    /\ pc = "select"
    /\ TaskAlive
    /\ sleepRemaining = 0
    /\ run_count < MaxRuns
    /\ StartCycle

Next ==
    \/ StartupFails
    \/ StartupSpawns
    \/ MainWaits
    \/ MainExits
    \/ SignalKill
    \/ SchedStart
    \/ ApiTokenDone
    \/ ZoneIdDone
    \/ RecordIdDone
    \/ ListRecordsDone
    \/ CurrentIpDone
    \/ IpServiceDone
    \/ UpdateIpDone
    \/ Tick
    \/ SelectSleep

Spec == Init /\ [][Next]_vars


\* ---------------------------------------------------------------- claims
\* the last finished cycle ended in an error
Failed == outcome \notin {"none", "NoChangeNeeded", "Updated"}

\* the positions of the calls of op in the log of the current cycle
CallsOf(op) == {i \in 1..Len(calls) : calls[i].op = op}

\* resolve() has returned an address in the current cycle
Resolved == public_ip # <<>>

\* C1: once a cycle has ended in a failure the scheduler is stopped, stays
\* stopped, and the number of cycles started never increases again.
C1_FailureHalts ==
    [][ /\ (Failed' => pc' = "stopped")
        /\ (Failed => (Failed' /\ run_count' = run_count)) ]_vars

\* a cycle other than the first has failed
C1_Witness == Failed /\ pc = "stopped" /\ run_count >= 2

\* C2: in a cycle in which the content read equals the resolved public IP no
\* write is issued.
C2_NoWriteWhenEqual ==
    (Resolved /\ current_dns_ip = public_ip) => CallsOf("update_ip") = {}

\* a second cycle in a row found the content equal to the public IP
C2_Witness ==
    /\ Resolved /\ current_dns_ip = public_ip
    /\ run_count >= 2 /\ outcome = "NoChangeNeeded" /\ pc = "select"

\* C3: in a cycle in which the content read differs from the resolved public
\* IP exactly one write is issued, and it writes the IP resolved in that cycle.
C3_OneWriteWhenDifferent ==
    (Resolved /\ current_dns_ip # public_ip) =>
        /\ Cardinality(CallsOf("update_ip")) = 1
        /\ \A i \in CallsOf("update_ip") : calls[i].arg = public_ip

\* a write was issued and the provider accepted it
C3_Witness ==
    /\ Resolved /\ current_dns_ip # public_ip
    /\ outcome = "Updated" /\ pc = "select" /\ dnsContent = public_ip

CycleOrder ==
    <<"api_token_right", "zone_id_right", "record_id_right", "current_ip",
      "fetch_public_ip", "update_ip">>

DiagnosticOrder ==
    <<"api_token_right", "zone_id_right", "record_id_right", "list_records">>

IsPrefixOf(ops, order) ==
    /\ Len(ops) <= Len(order)
    /\ \A i \in 1..Len(ops) : ops[i] = order[i]

CallOps == [i \in 1..Len(calls) |-> calls[i].op]

\* C4: the calls of a cycle come in the fixed order, each at most once; a call
\* is followed by another only if it succeeded (a false record check is
\* followed by the listing alone); a write comes only after the three
\* verifications returned true.
C4_CallOrder ==
    /\ IsPrefixOf(CallOps, CycleOrder) \/ IsPrefixOf(CallOps, DiagnosticOrder)
    /\ \A i \in 1..(Len(calls) - 1) :
          \/ calls[i].res \in {"true", "ok"}
          \/ /\ calls[i].op = "record_id_right"
             /\ calls[i].res = "false"
             /\ calls[i + 1].op = "list_records"
    /\ CallsOf("update_ip") # {} =>
          \A i \in 1..3 : calls[i].res = "true"

\* a cycle went through all six calls
C4_Witness == Len(calls) = 6 /\ calls[6].op = "update_ip"

\* C5: after the scheduler stopped on a failed cycle, the main task's wait
\* has received the notification (so main is not left waiting for good).
C5_FailureWakesMain ==
    (Failed /\ pc = "stopped" /\ mainPc = "waiting") => mainNotified

C7_WaitThenNext ==
    [][ /\ (pc \notin {"select", "stopped"} /\ pc' # pc
              /\ outcome' \in {"NoChangeNeeded", "Updated"}
              /\ Len(calls') = Len(calls)) => pc' = "select"
        /\ (pc = "select" /\ run_count' # run_count) => sleepRemaining = 0
        /\ (pc = "select" /\ sigWaitRun = run_count) => run_count' = run_count
      ]_vars

\* the second cycle started after the first ended well and the wait elapsed
C7_Witness ==
    /\ run_count = 2 /\ pc = "api_token_right" /\ interval > 0
    /\ outcome \in {"NoChangeNeeded", "Updated"}

\* C7, the two parts that do not depend on the signal: a successful cycle is
\* followed by the wait, and from the wait the next cycle starts only when
\* the interval has elapsed.
C7_IntervalRespected ==
    [][ /\ (pc \notin {"select", "stopped"} /\ pc' # pc
              /\ outcome' \in {"NoChangeNeeded", "Updated"}
              /\ Len(calls') = Len(calls)) => pc' = "select"
        /\ (pc = "select" /\ run_count' # run_count) => sleepRemaining = 0
      ]_vars

\* the scheduler task is inside an update cycle, a request in flight
CyclePcs ==
    {"api_token_right", "zone_id_right", "record_id_right", "list_records",
     "current_ip", "fetch_public_ip", "update_ip"}

\* C8: after a shutdown signal raised while a cycle was in progress, the
\* process does not stop with a cycle cut short: when the scheduler task
\* is ended, it is not inside a cycle.
C8_NoCycleAborted == (taskDropped /\ sigPc \in CyclePcs) => pc \notin CyclePcs

\* C9: a cycle whose record check returned false ends in the RecordInvalid
\* failure, whatever the listing returned.
C9_RecordInvalidOutcome ==
    (pc = "stopped" /\ \E i \in CallsOf("record_id_right") : calls[i].res = "false")
        => outcome = "Record ID is invalid"

\* C10: the listing is called exactly once in a cycle whose record check
\* returned false, and in no other cycle.
C10_ListingOnlyOnInvalidRecord ==
    Cardinality(CallsOf("list_records")) =
        IF \E i \in CallsOf("record_id_right") : calls[i].res = "false"
        THEN 1 ELSE 0

\* the record check returned false and the listing was called
C10_Witness ==
    /\ CallsOf("list_records") # {}
    /\ \E i \in CallsOf("record_id_right") : calls[i].res = "false"


\* The service bodies that are an IPv4 address once the surrounding whitespace
\* is removed, each with that address (all other bodies of ServiceBodies are
\* malformed or not IPv4)
ExpectedAnswers ==
    { <<IpA, IpA>>,
      <<IpB \o <<"\n">>, IpB>>,
      <<<<" ">> \o IpA \o <<"\n">>, IpA>> }

\* the answer a is a fetched body that holds the IPv4 address ip
Yields(a, ip) == a.ok /\ <<a.body, ip>> \in ExpectedAnswers

YieldsNone(a) == \A ip \in {IpA, IpB} : ~Yields(a, ip)

NoSourceAvailable == "No valid public IP address could be determined"

\* C11: resolve() returns the trimmed body of the first source, in list order,
\* whose fetch succeeded with a valid IPv4 body: an answer that yields no IPv4
\* address makes the next source be asked, a valid one is returned at once,
\* and resolve() fails with NoSourceAvailable exactly when the last source,
\* like all before it, yielded none.
C11_FirstValidSource ==
    [][ /\ (pc = "fetch_public_ip" /\ (pc' # pc \/ svc' # svc)) =>
              /\ (YieldsNone(answer') /\ svc < NumIpServices) =>
                    (pc' = pc /\ svc' = svc + 1 /\ public_ip' = <<>>)
              /\ (YieldsNone(answer') /\ svc = NumIpServices) =>
                    (pc' = "stopped" /\ outcome' = NoSourceAvailable
                        /\ public_ip' = <<>>)
              /\ \A ip \in {IpA, IpB} : Yields(answer', ip) =>
                    (public_ip' = ip /\ pc' \in {"update_ip", "select"})
        /\ (outcome' = NoSourceAvailable /\ outcome # NoSourceAvailable) =>
              (pc = "fetch_public_ip" /\ svc = NumIpServices
                  /\ YieldsNone(answer'))
      ]_vars

\* a later source's body, with a trailing newline, was returned trimmed after
\* earlier sources were skipped
C11_Witness ==
    /\ public_ip = IpB
    /\ answer = [ok |-> TRUE, body |-> IpB \o <<"\n">>]
    /\ Len(queried) >= 2

\* C17: within one resolve() the sources are asked in list order, each at
\* most once, and a further source is asked only after an answer that yielded
\* no IPv4 address (so none is asked after the first valid one).
C17_SourceOrder ==
    [][ /\ \A i \in 1..Len(queried') : queried'[i] = i
        /\ Len(queried') <= NumIpServices
        /\ (Len(queried') > Len(queried) /\ queried # <<>>) =>
              YieldsNone(answer')
      ]_vars

\* the third source gave the address: three sources asked, no more
C17_Witness == Resolved /\ queried = <<1, 2, 3>>


\* a required variable is not set in the environment e
MissingField(e) == ~e.token \/ ~e.zone \/ ~e.record \/ ~e.intervalSet

\* C12: with a required field missing, startup fails with a configuration
\* error, the scheduler task is never spawned, no cycle runs and no network
\* call is made.
C12_MissingFieldNoStart ==
    MissingField(env) =>
        /\ mainPc \in {"start", "exited", "killed"}
        /\ (mainPc = "exited" => configErr # "none")
        /\ pc = "unspawned"
        /\ run_count = 0
        /\ calls = <<>> /\ queried = <<>> /\ writes = 0

\* startup failed on the missing record id
C12_Witness ==
    /\ env.token /\ env.zone /\ ~env.record
    /\ mainPc = "exited" /\ configErr = "CF_RECORD_ID is missing"

\* C13: the first poll of the scheduler task starts the first cycle at once:
\* before the first cycle there is no wait and no timer.
C13_FirstCycleImmediate ==
    [][ /\ (pc = "spawned" /\ pc' # pc) =>
              (pc' = "api_token_right" /\ run_count' = 1 /\ Len(calls') = 1)
        /\ run_count' = 0 =>
              (pc' \in {"unspawned", "spawned"} /\ sleepRemaining' = 0)
      ]_vars

\* with a non-zero interval, the first cycle has its first request in flight
C13_Witness ==
    run_count = 1 /\ pc = "api_token_right" /\ interval > 0 /\ ~taskDropped

\* the text t is a positive integer number of seconds
PositiveInterval(t) == ParseU64(t).ok /\ ParseU64(t).val > 0

\* C14: an interval that is not a positive integer (non-numeric, negative or
\* zero) prevents the scheduler from starting.
C14_MalformedIntervalNoStart ==
    (env.intervalSet /\ ~PositiveInterval(env.intervalText)) => pc = "unspawned"

\* the positions of the calls that have not returned
Pending == {i \in 1..Len(calls) : calls[i].res = "pending"}

\* at most one call is in flight, the last one issued, and one is in flight
\* exactly while the task is inside a cycle; of the IP services the one in
\* flight is the last one asked
OneInFlight ==
    /\ Cardinality(Pending) <= 1
    /\ \A i \in Pending : i = Len(calls)
    /\ (pc \in CyclePcs) = (Pending # {})
    /\ pc = "fetch_public_ip" => (svc \in 1..NumIpServices /\ Len(queried) = svc)

\* C15: cycles run one after another and within a cycle at most one network
\* operation is in flight: a cycle starts only while no call of the previous
\* cycle is in flight, and a call is issued only when the one before it has
\* returned.
C15_Sequential ==
    [][ /\ OneInFlight'
        /\ run_count' # run_count => (Pending = {} /\ pc \notin CyclePcs)
      ]_vars

\* the second cycle has its write in flight, all calls before it returned
C15_Witness ==
    run_count = 2 /\ pc = "update_ip" /\ Len(calls) = 6 /\ Pending = {6}

\* C18: the record read fails whenever the provider answered with a status
\* other than success or without the content field: after such an answer the
\* cycle has failed and no content was taken.
C18_ReadFailsOnBadAnswer ==
    (curResp.sent /\ (curResp.status # "success" \/ curResp.body # "content"))
        => (Failed /\ pc = "stopped" /\ current_dns_ip = <<>>)

\* C19: the record is changed by this program's writes alone.  At the end of
\* a successful cycle the provider's content equals the public IP resolved in
\* that cycle, and in a run in which every resolve gave the same address at
\* most one write is issued.
C19_Converges ==
    /\ (pc = "select" /\ outcome \in {"NoChangeNeeded", "Updated"}) =>
          dnsContent = public_ip
    /\ Cardinality(resolvedIps) <= 1 => writes <= 1

\* the first cycle wrote the address, the second found nothing to change
C19_Witness ==
    /\ run_count = 2 /\ pc = "select" /\ outcome = "NoChangeNeeded"
    /\ writes = 1 /\ Cardinality(resolvedIps) = 1

====
